---- MODULE Spec2Model ----
(***************************************************************************)
(* Model of the "entry" path of tunajam/shipped (src/src/entry.ts and the  *)
(* caller in src/src/index.ts): fetchPRDetails -> generateWithAI ->        *)
(* formatEntry -> prependToChangelog.                                      *)
(*                                                                         *)
(* Text is modelled as a sequence of one-character strings, so that the    *)
(* header regular expression, trim() and split() are computed character by *)
(* character.  An optional value (null / undefined in the source) is the   *)
(* empty tuple <<>>, a present value v is <<v>>.                           *)
(***************************************************************************)
EXTENDS Integers, Sequences, FiniteSets, TLC

\* ------------------------------------------------------------------ bounds
MaxLines == 3        \* lines of an existing changelog document drawn in InitMerge
MaxReviews == 3      \* reviews returned by listReviews in the details specification
MaxInvocations == 3  \* invocations (processes) of the sequential specification
MaxConcurrent == 2   \* invocations that may overlap in the concurrent specification

\* ------------------------------------------------------------- text helpers
Chars(s) == [i \in 1..Len(s) |-> SubSeq(s, i, i)]

None == <<>>
Some(v) == <<v>>

\* U+2022, the bullet of the ' • ' separator in formatEntry, as one character
Bullet == "(U+2022)"

RECURSIVE Flatten(_)
Flatten(ss) == IF ss = <<>> THEN <<>> ELSE Head(ss) \o Flatten(Tail(ss))

\* Array.prototype.join
RECURSIVE Join(_, _)
Join(parts, sep) ==
  IF parts = <<>> THEN <<>>
  ELSE IF Len(parts) = 1 THEN parts[1]
  ELSE parts[1] \o sep \o Join(Tail(parts), sep)

IsPrefixAt(s, p, pat) ==
  /\ p + Len(pat) - 1 <= Len(s)
  /\ \A i \in 1..Len(pat) : s[p + i - 1] = pat[i]

\* String.prototype.split(sep)[0]: the text before the first occurrence of sep
SplitFirst(s, sep) ==
  LET hits == {p \in 1..Len(s) : IsPrefixAt(s, p, sep)}
  IN IF hits = {} THEN s
     ELSE SubSeq(s, 1, (CHOOSE p \in hits : \A q \in hits : p <= q) - 1)

\* String.prototype.trim
WhiteSpace == {" ", "\t", "\n", "\r", "\f"}

Trim(s) ==
  LET keep == {i \in 1..Len(s) : s[i] \notin WhiteSpace}
  IN IF keep = {} THEN <<>>
     ELSE SubSeq(s, CHOOSE i \in keep : \A j \in keep : i <= j,
                    CHOOSE i \in keep : \A j \in keep : i >= j)

\* ---------------------------------------------------- prependToChangelog
\* U+2028 and U+2029, each as one character
LineSeparator == "(U+2028)"
ParagraphSeparator == "(U+2029)"

\* '.' of a JavaScript regular expression without the s flag
Dot(c) == c \notin {"\n", "\r", LineSeparator, ParagraphSeparator}

\* first position >= p that does not hold a '.' character (greedy .+)
RECURSIVE DotRunEnd(_, _)
DotRunEnd(s, p) == IF p <= Len(s) /\ Dot(s[p]) THEN DotRunEnd(s, p + 1) ELSE p

\* first position >= p that does not hold a newline (greedy \n+)
RECURSIVE NewlineRunEnd(_, _)
NewlineRunEnd(s, p) == IF p <= Len(s) /\ s[p] = "\n" THEN NewlineRunEnd(s, p + 1) ELSE p

\* .+\n+ at position p: the position after the match, 0 when it fails
LineBody(s, p) ==
  LET e == DotRunEnd(s, p)
  IN IF e > p /\ e <= Len(s) /\ s[e] = "\n" THEN NewlineRunEnd(s, e) ELSE 0

\* variant: the second alternative written [^#-], so that a separator line
\* ends the preamble
PreambleLineStopAtDash(s, p) ==
  IF p > Len(s) THEN 0
  ELSE IF s[p] = ">" /\ LineBody(s, p + 1) # 0 THEN LineBody(s, p + 1)
  ELSE IF s[p] \notin {"#", "-"} THEN LineBody(s, p + 1)
  ELSE 0

\* one iteration of (?:(?:>.+\n+)|(?:[^#].+\n+)) at position p
PreambleLine(s, p) ==
  IF p > Len(s) THEN 0
  ELSE IF s[p] = ">" /\ LineBody(s, p + 1) # 0 THEN LineBody(s, p + 1)
  ELSE IF s[p] # "#" THEN LineBody(s, p + 1)
  ELSE 0

\* (?: ... )* from position p: the position after the last iteration
RECURSIVE PreambleEnd(_, _)
PreambleEnd(s, p) ==
  IF PreambleLine(s, p) = 0 THEN p ELSE PreambleEnd(s, PreambleLine(s, p))

\* variant: the pattern without the space after '#'
headerMatchNoSpace(s) ==
  IF Len(s) >= 1 /\ s[1] = "#" /\ LineBody(s, 2) # 0
  THEN Some(PreambleEnd(s, LineBody(s, 2)) - 1)
  ELSE None

\* existingContent.match(/^# .+\n+(?:(?:>.+\n+)|(?:[^#].+\n+))*/):
\* None for null, Some(length of headerMatch[0]) otherwise
headerMatch(s) ==
  IF Len(s) >= 2 /\ s[1] = "#" /\ s[2] = " " /\ LineBody(s, 3) # 0
  THEN Some(PreambleEnd(s, LineBody(s, 3)) - 1)
  ELSE None

DefaultHeader == Chars("# Changelog\n\nAll notable changes to this project.\n\n---\n\n")

\* the file system entry at changelogPath
NoFile == [exists |-> FALSE, content |-> <<>>]
FileOf(text) == [exists |-> TRUE, content |-> text]

\* lines 207-211: existsSync / readFileSync
ReadExisting(f) == IF f.exists THEN f.content ELSE <<>>

\* variant: the header branch appends the entry after the rest
newContentAfterRest(e, existing) ==
  IF headerMatch(existing) # None
  THEN existing \o e
  ELSE IF Trim(existing) = <<>> THEN DefaultHeader \o e
  ELSE e \o existing

\* variant: the second branch tests existingContent === '' without trim()
newContentNoTrim(e, existing) ==
  IF headerMatch(existing) # None
  THEN SubSeq(existing, 1, headerMatch(existing)[1]) \o e
         \o SubSeq(existing, headerMatch(existing)[1] + 1, Len(existing))
  ELSE IF existing = <<>> THEN DefaultHeader \o e
  ELSE e \o existing

\* lines 213-234: the three branches
newContent(e, existing) ==
  IF headerMatch(existing) # None
  THEN SubSeq(existing, 1, headerMatch(existing)[1]) \o e
         \o SubSeq(existing, headerMatch(existing)[1] + 1, Len(existing))
  ELSE IF Trim(existing) = <<>> THEN DefaultHeader \o e
  ELSE e \o existing

\* --------------------------------------------------------- fetchPRDetails
\* r.user?.login of one review: None when the user or the login is absent
LoginOf(r) == r.user

\* variant: the logins spread into the array without the Set
DedupNone(xs) == xs

\* lines 81-86: approved reviews, their logins, the truthy ones, de-duplicated
\* in insertion order ([...new Set(...)])
RECURSIVE Dedup(_)
Dedup(xs) ==
  IF xs = <<>> THEN <<>>
  ELSE LET front == Dedup(SubSeq(xs, 1, Len(xs) - 1))
           last == xs[Len(xs)]
       IN IF \E i \in 1..Len(front) : front[i] = last THEN front ELSE Append(front, last)

IsApproved(r) == r.state = "APPROVED"

Truthy(login) == login # None /\ login[1] # ""

RECURSIVE MapLogin(_)
MapLogin(rs) == IF rs = <<>> THEN <<>> ELSE <<LoginOf(Head(rs))>> \o MapLogin(Tail(rs))

RECURSIVE Unwrap(_)
Unwrap(ls) == IF ls = <<>> THEN <<>> ELSE <<Head(ls)[1]>> \o Unwrap(Tail(ls))

reviewersOf(rs) ==
  Dedup(Unwrap(SelectSeq(MapLogin(SelectSeq(rs, IsApproved)), Truthy)))

\* lines 88-97, the fields the entry depends on
fetchedDetails(snapshot, rs, now) ==
  [author |-> IF Truthy(snapshot.user) THEN snapshot.user[1] ELSE "unknown",
   reviewers |-> reviewersOf(rs),
   mergedAt |-> IF snapshot.merged_at # None THEN snapshot.merged_at[1] ELSE now]

\* ------------------------------------------------------------ formatEntry
\* a timestamp string: parseable (a local day, hour and UTC offset) or not
Calendar == <<"2024-02-29", "2024-03-01", "2024-03-02">>

InvalidDate == [valid |-> FALSE, day |-> 0, hour |-> 0, off |-> 0]
Timestamp(d, h, o) == [valid |-> TRUE, day |-> d, hour |-> h, off |-> o]

\* new Date(mergedAt).toISOString().split('T')[0]: the calendar date in UTC
IsoDate(ts) == Chars(Calendar[ts.day + ((ts.hour - ts.off) \div 24)])

RECURSIVE AtAll(_)
AtAll(us) == IF us = <<>> THEN <<>> ELSE <<<<"@">> \o Chars(Head(us))>> \o AtAll(Tail(us))

BulletSep == <<" ", Bullet, " ">>

\* variant: the reviewers joined with the bullet separator of `contributors`
attributionAllBullets(d) ==
  LET contributors == Join(AtAll(<<d.author>> \o d.reviewers), BulletSep)
  IN IF Len(d.reviewers) > 0
     THEN Chars("**Shipped by** ") \o SplitFirst(contributors, BulletSep)
            \o BulletSep \o Chars("**Reviewed by** ")
            \o Join(AtAll(d.reviewers), BulletSep)
     ELSE Chars("**Shipped by** @") \o Chars(d.author)

\* lines 187-193
attributionOf(d) ==
  LET contributors == Join(AtAll(<<d.author>> \o d.reviewers), BulletSep)
  IN IF Len(d.reviewers) > 0
     THEN Chars("**Shipped by** ") \o SplitFirst(contributors, BulletSep)
            \o BulletSep \o Chars("**Reviewed by** ")
            \o Join(AtAll(d.reviewers), Chars(", "))
     ELSE Chars("**Shipped by** @") \o Chars(d.author)

\* lines 195-203
formatEntry(aiContent, d) ==
  Chars("## ") \o IsoDate(d.mergedAt) \o Chars("\n\n")
    \o Trim(aiContent) \o Chars("\n\n")
    \o attributionOf(d) \o Chars("\n\n---\n\n")

\* line 145: !content
ContentMissing(c) == c = None \/ c[1] = <<>>

\* ------------------------------------------------------------------ state
Procs == 1..(IF MaxInvocations >= MaxConcurrent THEN MaxInvocations ELSE MaxConcurrent)

VARIABLES
  file,             \* the changelog file at changelogPath
  pc,               \* per invocation: the await / system call it is at
  pr,               \* per invocation: the pull request snapshot of the event
  reviews,          \* per invocation: data of listReviews
  details,          \* per invocation: PullRequestDetails
  content,          \* per invocation: response.choices[0]?.message?.content
  entry,            \* per invocation: the formatted entry
  existingContent,  \* per invocation: local of prependToChangelog
  error,            \* per invocation: message handed to core.setFailed
  before,           \* history: the file when the invocation started
  writes,           \* history: writeFileSync calls of the invocation
  completed,        \* history: the awaited calls of the invocation that resolved
  log               \* history: the entries written, in order of writing

vars == <<file, pc, pr, reviews, details, content, entry, existingContent,
          error, before, writes, completed, log>>

NoSnapshot == [user |-> None, merged_at |-> None]
NoDetails == [author |-> "", reviewers |-> <<>>, mergedAt |-> InvalidDate]

InFlight(p) == pc[p] \notin {"idle", "done", "failed"}

\* `new Date()` when merged_at is absent
Clock == {Timestamp(3, 12, 0)}

Fail(p, msg) ==
  /\ pc' = [pc EXCEPT ![p] = "failed"]
  /\ error' = [error EXCEPT ![p] = Some(msg)]

\* variant: the changelog is opened for writing (truncated) when the run starts
StartTruncating(p, snapshots) ==
  /\ pc[p] = "idle"
  /\ \E s \in snapshots : pr' = [pr EXCEPT ![p] = s]
  /\ pc' = [pc EXCEPT ![p] = "listCommits"]
  /\ before' = [before EXCEPT ![p] = file]
  /\ file' = FileOf(<<>>)
  /\ UNCHANGED <<reviews, details, content, entry, existingContent,
                 error, writes, completed, log>>

\* index.ts 98: run() calls generateEntry for the merged pull request
Start(p, snapshots) ==
  /\ pc[p] = "idle"
  /\ \E s \in snapshots : pr' = [pr EXCEPT ![p] = s]
  /\ pc' = [pc EXCEPT ![p] = "listCommits"]
  /\ before' = [before EXCEPT ![p] = file]
  /\ UNCHANGED <<completed, file, reviews, details, content, entry, existingContent,
                 error, writes, log>>

\* entry.ts 61-65
ListCommits(p) ==
  /\ pc[p] = "listCommits"
  /\ pc' = [pc EXCEPT ![p] = "listReviews"]
  /\ completed' = [completed EXCEPT ![p] = @ \cup {"listCommits"}]
  /\ UNCHANGED <<file, pr, reviews, details, content, entry, existingContent,
                 error, before, writes, log>>

ListCommitsFail(p) ==
  /\ pc[p] = "listCommits"
  /\ Fail(p, "listCommits rejected")
  /\ UNCHANGED <<completed, file, pr, reviews, details, content, entry, existingContent,
                 before, writes, log>>

\* entry.ts 68-72
ListReviews(p, answers) ==
  /\ pc[p] = "listReviews"
  /\ \E rs \in answers : reviews' = [reviews EXCEPT ![p] = rs]
  /\ pc' = [pc EXCEPT ![p] = "listFiles"]
  /\ completed' = [completed EXCEPT ![p] = @ \cup {"listReviews"}]
  /\ UNCHANGED <<file, pr, details, content, entry, existingContent,
                 error, before, writes, log>>

ListReviewsFail(p) ==
  /\ pc[p] = "listReviews"
  /\ Fail(p, "listReviews rejected")
  /\ UNCHANGED <<completed, file, pr, reviews, details, content, entry, existingContent,
                 before, writes, log>>

\* entry.ts 75-97: the third query, then the details record
ListFiles(p) ==
  /\ pc[p] = "listFiles"
  /\ \E now \in Clock :
       details' = [details EXCEPT ![p] = fetchedDetails(pr[p], reviews[p], now)]
  /\ pc' = [pc EXCEPT ![p] = "create"]
  /\ completed' = [completed EXCEPT ![p] = @ \cup {"listFiles"}]
  /\ UNCHANGED <<file, pr, reviews, content, entry, existingContent,
                 error, before, writes, log>>

ListFilesFail(p) ==
  /\ pc[p] = "listFiles"
  /\ Fail(p, "listFiles rejected")
  /\ UNCHANGED <<completed, file, pr, reviews, details, content, entry, existingContent,
                 before, writes, log>>

\* entry.ts 108-149: the completion resolves; content check; formatEntry
generateWithAI(p, responses) ==
  /\ pc[p] = "create"
  /\ completed' = [completed EXCEPT ![p] = @ \cup {"create"}]
  /\ \E c \in responses :
       /\ content' = [content EXCEPT ![p] = c]
       /\ IF ContentMissing(c)
          THEN Fail(p, "No response from OpenAI") /\ UNCHANGED entry
          ELSE IF ~details[p].mergedAt.valid
          THEN Fail(p, "Invalid time value") /\ UNCHANGED entry
          ELSE /\ entry' = [entry EXCEPT ![p] = formatEntry(c[1], details[p])]
               /\ pc' = [pc EXCEPT ![p] = "read"]
               /\ UNCHANGED error
  /\ UNCHANGED <<file, pr, reviews, details, existingContent, before, writes, log>>

\* entry.ts 108: the completion request rejects
generateWithAIFail(p) ==
  /\ pc[p] = "create"
  /\ Fail(p, "chat completion rejected")
  /\ UNCHANGED <<completed, file, pr, reviews, details, content, entry, existingContent,
                 before, writes, log>>

\* entry.ts 207-211: existsSync and readFileSync
Read(p) ==
  /\ pc[p] = "read"
  /\ existingContent' = [existingContent EXCEPT ![p] = ReadExisting(file)]
  /\ pc' = [pc EXCEPT ![p] = "write"]
  /\ UNCHANGED <<completed, file, pr, reviews, details, content, entry, error, before,
                 writes, log>>

\* variant: the merge re-reads the file at the moment it writes
WriteRereading(p) ==
  /\ pc[p] = "write"
  /\ file' = FileOf(newContent(entry[p], ReadExisting(file)))
  /\ writes' = [writes EXCEPT ![p] = @ + 1]
  /\ log' = Append(log, entry[p])
  /\ pc' = [pc EXCEPT ![p] = "done"]
  /\ UNCHANGED <<completed, pr, reviews, details, content, entry, existingContent,
                 error, before>>

\* entry.ts 213-237 and index.ts 106-108: the branches, writeFileSync, return
Write(p) ==
  /\ pc[p] = "write"
  /\ file' = FileOf(newContent(entry[p], existingContent[p]))
  /\ writes' = [writes EXCEPT ![p] = @ + 1]
  /\ log' = Append(log, entry[p])
  /\ pc' = [pc EXCEPT ![p] = "done"]
  /\ UNCHANGED <<completed, pr, reviews, details, content, entry, existingContent,
                 error, before>>

\* ----------------------------------------------------------------- inputs
SeqsUpTo(S, n) == UNION {[1..k -> S] : k \in 0..n}

Review(st, u) == [state |-> st, user |-> u]

\* what listReviews may return in the details specification
ReviewKinds ==
  {Review(st, u) : st \in {"APPROVED", "CHANGES_REQUESTED"},
                   u \in {None, Some(""), Some("bob"), Some("carol")}}

WideReviews == SeqsUpTo(ReviewKinds, MaxReviews)

WideSnapshots ==
  {[user |-> u, merged_at |-> m] :
     u \in {None, Some("alice")},
     m \in {None, Some(Timestamp(2, 0, 0)), Some(Timestamp(2, 23, -5)), Some(InvalidDate)}}

WideResponses(p) == {None, Some(Chars("### Dark mode\nToggle it in settings."))}

\* the inputs of the invocations of the sequential and concurrent specifications
PipelineSnapshots ==
  {[user |-> Some("alice"), merged_at |-> m] :
     m \in {Some(Timestamp(2, 0, 0)), Some(InvalidDate)}}

PipelineReviews == {<<Review("APPROVED", Some("bob")), Review("APPROVED", Some("bob"))>>}

Digit(p) == Chars("0123456789")[p + 1]

PipelineResponses(p) ==
  {None, Some(<<>>), Some(Chars(" \n")),
   Some(Chars(" Change ") \o <<Digit(p)>> \o Chars("\n")),
   Some(Chars("# T\n\n---\n\nv") \o <<Digit(p)>>)}

\* existing changelog documents: up to MaxLines lines, the last one with or
\* without its newline
LineKinds == {"# a", "# ", "#a", "## b", "---", "-", "ab", "> q", "", " ", "ab\r", "\rab"}

RECURSIVE CharsAll(_)
CharsAll(ls) == IF ls = <<>> THEN <<>> ELSE <<Chars(Head(ls))>> \o CharsAll(Tail(ls))

Render(ls, nl) == Join(CharsAll(ls), <<"\n">>) \o (IF nl THEN <<"\n">> ELSE <<>>)

Documents == {Render(ls, nl) : ls \in SeqsUpTo(LineKinds, MaxLines), nl \in BOOLEAN}

SampleEntries ==
  {formatEntry(Chars("Change 1"),
               [author |-> "alice", reviewers |-> <<>>, mergedAt |-> Timestamp(2, 0, 0)]),
   formatEntry(Chars(" "),
               [author |-> "alice", reviewers |-> <<"bob">>, mergedAt |-> Timestamp(2, 23, -5)])}

\* --------------------------------------------------------- specifications
Fresh ==
  /\ pc = [p \in Procs |-> "idle"]
  /\ pr = [p \in Procs |-> NoSnapshot]
  /\ reviews = [p \in Procs |-> <<>>]
  /\ details = [p \in Procs |-> NoDetails]
  /\ content = [p \in Procs |-> None]
  /\ entry = [p \in Procs |-> <<>>]
  /\ existingContent = [p \in Procs |-> <<>>]
  /\ error = [p \in Procs |-> None]
  /\ before = [p \in Procs |-> NoFile]
  /\ writes = [p \in Procs |-> 0]
  /\ completed = [p \in Procs |-> {}]
  /\ log = <<>>

EmptyFiles == {NoFile, FileOf(<<>>), FileOf(Chars(" \n"))}

\* concurrent invocations (separate processes) on one changelog path
Init ==
  /\ file \in EmptyFiles
  /\ Fresh

StartConc(p) == Start(p, PipelineSnapshots)

Next ==
  \E p \in 1..MaxConcurrent :
    \/ StartConc(p)
    \/ ListCommits(p)
    \/ ListCommitsFail(p)
    \/ ListReviews(p, PipelineReviews)
    \/ ListReviewsFail(p)
    \/ ListFiles(p)
    \/ ListFilesFail(p)
    \/ generateWithAI(p, PipelineResponses(p))
    \/ generateWithAIFail(p)
    \/ Read(p)
    \/ Write(p)

Spec == Init /\ [][Next]_vars

\* non-overlapping invocations: the p-th one starts when the ones before it
\* have returned or thrown
StartSeq(p) ==
  /\ \A q \in Procs : q < p => pc[q] \in {"done", "failed"}
  /\ Start(p, PipelineSnapshots)

NextSeq ==
  \E p \in 1..MaxInvocations :
    \/ StartSeq(p)
    \/ ListCommits(p)
    \/ ListCommitsFail(p)
    \/ ListReviews(p, PipelineReviews)
    \/ ListReviewsFail(p)
    \/ ListFiles(p)
    \/ ListFilesFail(p)
    \/ generateWithAI(p, PipelineResponses(p))
    \/ generateWithAIFail(p)
    \/ Read(p)
    \/ Write(p)

SpecSeq == Init /\ [][NextSeq]_vars

\* fetchPRDetails and formatEntry on bounded inputs
StartWide(p) == Start(p, WideSnapshots)

NextDetails ==
  \E p \in {1} :
    \/ StartWide(p)
    \/ ListCommits(p)
    \/ ListReviews(p, WideReviews)
    \/ ListFiles(p)
    \/ generateWithAI(p, WideResponses(p))

SpecDetails == Init /\ [][NextDetails]_vars

\* prependToChangelog on bounded documents: invocation 1 is about to merge
InitMerge ==
  /\ file \in {NoFile} \cup {FileOf(d) : d \in Documents}
  /\ pc = [p \in Procs |-> IF p = 1 THEN "read" ELSE "idle"]
  /\ pr = [p \in Procs |-> NoSnapshot]
  /\ reviews = [p \in Procs |-> <<>>]
  /\ details = [p \in Procs |-> NoDetails]
  /\ content = [p \in Procs |-> None]
  /\ entry \in {[p \in Procs |-> IF p = 1 THEN e ELSE <<>>] : e \in SampleEntries}
  /\ existingContent = [p \in Procs |-> <<>>]
  /\ error = [p \in Procs |-> None]
  /\ before = [p \in Procs |-> file]
  /\ writes = [p \in Procs |-> 0]
  /\ completed = [p \in Procs |->
                    IF p = 1 THEN {"listCommits", "listReviews", "listFiles", "create"}
                    ELSE {}]
  /\ log = <<>>

NextMerge == \E p \in {1} : Read(p) \/ Write(p)

SpecMerge == InitMerge /\ [][NextMerge]_vars

\* ------------------------------------------------ claims: the document merger
\* first position holding a newline, Len(s) + 1 when there is none
FirstLineEnd(s) ==
  LET nls == {i \in 1..Len(s) : s[i] = "\n"}
  IN IF nls = {} THEN Len(s) + 1 ELSE CHOOSE i \in nls : \A j \in nls : i <= j

\* the first line is '# ' followed by text
StartsWithH1(s) == FirstLineEnd(s) >= 4 /\ s[1] = "#" /\ s[2] = " "

\* r is s with e inserted after its first k characters
InsertedAt(r, s, e, k) == r = SubSeq(s, 1, k) \o e \o SubSeq(s, k + 1, Len(s))

LineStarts(s) == {1} \cup {i + 1 : i \in {j \in 1..Len(s) : s[j] = "\n"}}

LineEnd(s, p) ==
  LET nls == {i \in p..Len(s) : s[i] = "\n"}
  IN IF nls = {} THEN Len(s) + 1 ELSE CHOOSE i \in nls : \A j \in nls : i <= j

Least(S) == CHOOSE x \in S : \A y \in S : x <= y

\* a markdown heading of any level starts at p
IsHeadingLine(s, p) ==
  \E n \in 1..6 : /\ \A i \in 0..(n - 1) : p + i <= Len(s) /\ s[p + i] = "#"
                  /\ p + n <= Len(s) /\ s[p + n] = " "

\* the line at p is the entry separator '---'
IsSeparatorLine(s, p) == IsPrefixAt(s, p, Chars("---")) /\ LineEnd(s, p) = p + 3

HeaderBranch(p) ==
  pc[p] = "done" /\ before[p].exists /\ headerMatch(before[p].content) # None

\* C1 (as claimed): after a merge into a document whose first line is a
\* level-1 heading, with or without a newline after it, the document still
\* begins with that heading line, the entry comes somewhere after it and the
\* rest of the original document is unchanged around the entry.
C1_HeaderKeptInPlace ==
  \A p \in Procs :
    (pc[p] = "done" /\ before[p].exists /\ StartsWithH1(before[p].content)) =>
      \E k \in (FirstLineEnd(before[p].content) - 1)..Len(before[p].content) :
        InsertedAt(file.content, before[p].content, entry[p], k)

\* C2: a merge into an absent or whitespace-only file writes exactly the
\* default header ('# Changelog', the description line, '---') followed
\* immediately by the entry.
C2_EmptyGetsDefaultHeader ==
  \A p \in Procs :
    (pc[p] = "done" /\ (~before[p].exists \/ Trim(before[p].content) = <<>>)) =>
      file = FileOf(Join(<<Chars("# Changelog"), <<>>,
                           Chars("All notable changes to this project."), <<>>,
                           Chars("---"), <<>>, entry[p]>>, <<"\n">>))

C2_Witness ==
  /\ pc[1] = "done"
  /\ before[1].exists
  /\ before[1].content # <<>>
  /\ Trim(before[1].content) = <<>>

\* C3: a merge into a document that is not whitespace-only and whose first
\* line is not a level-1 heading writes the entry followed by the complete
\* prior content.
C3_NoHeaderPrepends ==
  \A p \in Procs :
    (/\ pc[p] = "done"
     /\ before[p].exists
     /\ Trim(before[p].content) # <<>>
     /\ ~StartsWithH1(before[p].content)) =>
      file = FileOf(entry[p] \o before[p].content)

C3_Witness ==
  /\ pc[1] = "done"
  /\ before[1].exists
  /\ Len(before[1].content) > 3
  /\ before[1].content[1] = "#"
  /\ ~StartsWithH1(before[1].content)
  /\ file = FileOf(entry[1] \o before[1].content)

\* the insertion point the specification describes: before the first line
\* after the first one that is a heading or a separator
ClaimedInsertionPoint(s) ==
  LET stops == {q \in LineStarts(s) :
                  q > 1 /\ (IsHeadingLine(s, q) \/ IsSeparatorLine(s, q))}
  IN IF stops = {} THEN Len(s) ELSE Least(stops) - 1

\* C9 (as claimed): in the header-present branch the entry is placed
\* immediately before the first heading line or separator line that follows
\* the level-1 heading, or at the end of the document.
C9_InsertBeforeFirstHeadingOrSeparator ==
  \A p \in Procs :
    HeaderBranch(p) =>
      InsertedAt(file.content, before[p].content, entry[p],
                 ClaimedInsertionPoint(before[p].content))

\* the insertion point of the code, line by line: blank lines aside, before
\* the first line after the first one that starts with '#', has a single
\* character, holds a carriage return or Unicode line break after its first
\* character, or is not terminated by a newline
ActualInsertionPoint(s) ==
  LET stops == {q \in LineStarts(s) :
                  /\ q > 1 /\ q <= Len(s) /\ s[q] # "\n"
                  /\ \/ s[q] = "#"
                     \/ LineEnd(s, q) = q + 1
                     \/ LineEnd(s, q) > Len(s)
                     \/ \E i \in (q + 1)..(LineEnd(s, q) - 1) :
                          s[i] \in {"\r", LineSeparator, ParagraphSeparator}}
  IN IF stops = {} THEN Len(s) ELSE Least(stops) - 1

\* C9 (amended): in the header-present branch the entry is placed after the
\* heading line and the maximal run of newline-terminated lines of two or
\* more characters that do not start with '#' and hold no carriage return
\* after the first character (separator lines included), blank lines skipped.
C9_InsertAfterMatchedHeader ==
  \A p \in Procs :
    HeaderBranch(p) =>
      InsertedAt(file.content, before[p].content, entry[p],
                 ActualInsertionPoint(before[p].content))

\* a merge that passed over a separator line and stopped at a later heading
C9_Witness ==
  /\ HeaderBranch(1)
  /\ \E q \in LineStarts(before[1].content) :
       /\ IsSeparatorLine(before[1].content, q)
       /\ q < ActualInsertionPoint(before[1].content)
       /\ ActualInsertionPoint(before[1].content) < Len(before[1].content)

\* ------------------------------------------- claims: details and formatting
Formatted(p) == pc[p] \in {"read", "write", "done"}

Aggregated(p) == details[p] # NoDetails

RuleSuffix == Chars("\n\n---\n\n")

\* the line of an entry just before its closing blank line and rule
AttributionLine(e) ==
  LET n == Len(e) - Len(RuleSuffix)
      nls == {i \in 1..n : e[i] = "\n"}
  IN SubSeq(e, (CHOOSE i \in nls : \A j \in nls : i >= j) + 1, n)

\* C6 (as claimed): with author alice the attribution line is
\* 'Shipped by @alice' without reviewers and
\* 'Shipped by @alice (bullet) Reviewed by @bob, @carol' with bob and carol.
C6_PlainAttribution ==
  \A p \in Procs :
    (Formatted(p) /\ details[p].author = "alice") =>
      /\ details[p].reviewers = <<>> =>
           AttributionLine(entry[p]) = Chars("Shipped by @alice")
      /\ details[p].reviewers = <<"bob", "carol">> =>
           AttributionLine(entry[p]) =
             Chars("Shipped by @alice ") \o <<Bullet>> \o Chars(" Reviewed by @bob, @carol")

\* C6 (amended): the labels carry markdown emphasis; the author comes first
\* and the reviewers follow in list order, separated by ', '.
C6_BoldAttribution ==
  \A p \in Procs :
    Formatted(p) =>
      /\ (details[p].author = "alice" /\ details[p].reviewers = <<>>) =>
           AttributionLine(entry[p]) = Chars("**Shipped by** @alice")
      /\ (details[p].author = "alice" /\ details[p].reviewers = <<"bob", "carol">>) =>
           AttributionLine(entry[p]) =
             Chars("**Shipped by** @alice ") \o <<Bullet>>
               \o Chars(" **Reviewed by** @bob, @carol")
      /\ IsPrefixAt(AttributionLine(entry[p]), 1,
                    Chars("**Shipped by** @") \o Chars(details[p].author))
      /\ \A i \in 1..Len(details[p].reviewers) :
           \E k \in 1..Len(AttributionLine(entry[p])) :
             /\ IsPrefixAt(AttributionLine(entry[p]), k,
                           <<"@">> \o Chars(details[p].reviewers[i]))
             /\ k > Len(Chars("**Shipped by** @") \o Chars(details[p].author))
             /\ i > 1 =>
                  \E j \in 1..(k - 1) :
                    IsPrefixAt(AttributionLine(entry[p]), j,
                               <<"@">> \o Chars(details[p].reviewers[i - 1]) \o Chars(", "))

C6_Witness ==
  /\ Formatted(1)
  /\ details[1].author = "alice"
  /\ details[1].reviewers = <<"bob", "carol">>

\* index of the first approved review of a login
FirstApproval(rs, login) ==
  Least({i \in 1..Len(rs) : rs[i].state = "APPROVED" /\ rs[i].user = Some(login)})

\* C7: the reviewers are exactly the distinct non-empty logins of the approved
\* reviews, each once, in order of first approved review.
C7_ReviewersAreDistinctApprovers ==
  \A p \in Procs :
    Aggregated(p) =>
      LET rs == reviews[p]
          out == details[p].reviewers
      IN /\ {out[i] : i \in 1..Len(out)} =
              {rs[i].user[1] : i \in {j \in 1..Len(rs) :
                  rs[j].state = "APPROVED" /\ rs[j].user # None /\ rs[j].user[1] # ""}}
         /\ \A i, j \in 1..Len(out) : i # j => out[i] # out[j]
         /\ \A i, j \in 1..Len(out) :
              i < j => FirstApproval(rs, out[i]) < FirstApproval(rs, out[j])
         /\ rs = <<Review("APPROVED", Some("bob")), Review("APPROVED", Some("carol")),
                   Review("APPROVED", Some("bob"))>> => Len(out) = 2

C7_Witness ==
  /\ Aggregated(1)
  /\ reviews[1] = <<Review("APPROVED", Some("bob")), Review("APPROVED", Some("carol")),
                    Review("APPROVED", Some("bob"))>>
  /\ details[1].reviewers = <<"bob", "carol">>

\* ------------------------------------------------------ claims: the pipeline
\* C4: the file changes only in the write of an invocation whose queries and
\* model call all succeeded, each invocation writes at most once and exactly
\* once when it returns, and an invocation that throws reports the error and
\* leaves the file as it was when it started.
C4_WriteOnceOrNothing ==
  /\ [](\A p \in Procs :
          /\ writes[p] <= 1
          /\ (pc[p] = "done") <=> (writes[p] = 1)
          /\ pc[p] = "done" => error[p] = None /\ ~ContentMissing(content[p])
          /\ pc[p] = "failed" => error[p] # None)
  /\ [][/\ file' # file =>
             \E p \in Procs :
               /\ pc[p] = "write" /\ pc'[p] = "done"
               /\ completed[p] = {"listCommits", "listReviews", "listFiles", "create"}
        /\ \A p \in Procs :
             (pc[p] # "failed" /\ pc'[p] = "failed") => file' = before[p]]_vars

C4_Witness ==
  /\ pc[1] = "done"
  /\ pc[2] = "failed"
  /\ error[2] = Some("Invalid time value")
  /\ file = before[2]
  /\ file.exists

\* C8 (as claimed): an entry is formatted and persisted only when the model
\* returned text that is non-empty once trimmed.
C8_NoEmptyBodyPersisted ==
  \A p \in Procs :
    Formatted(p) => content[p] # None /\ Trim(content[p][1]) # <<>>

\* number of lines that start a level-2 heading
EntryCount(s) == Cardinality({q \in LineStarts(s) : IsPrefixAt(s, q, Chars("## "))})

\* C5: when two invocations that both returned read the same content, the
\* document holds fewer entries than were written: one of them is lost.
C5_LostUpdate ==
  \A p, q \in Procs :
    (/\ p # q
     /\ pc[p] = "done" /\ pc[q] = "done"
     /\ error[p] = None /\ error[q] = None
     /\ existingContent[p] = existingContent[q]) =>
      EntryCount(file.content) < Len(log)

C5_Witness ==
  /\ pc[1] = "done" /\ pc[2] = "done"
  /\ existingContent[1] = existingContent[2]
  /\ entry[1] # entry[2]
  /\ Len(log) = 2
  /\ EntryCount(file.content) = 1

RECURSIVE Reverse(_)
Reverse(xs) == IF xs = <<>> THEN <<>> ELSE Append(Reverse(Tail(xs)), Head(xs))

IsDigit(c) == c \in {"0", "1", "2", "3", "4", "5", "6", "7", "8", "9"}

\* '## YYYY-MM-DD' and a newline at the front, the rule at the back
WellDelimited(e) ==
  /\ Len(e) >= 21
  /\ IsPrefixAt(e, 1, Chars("## "))
  /\ \A i \in {4, 5, 6, 7, 9, 10, 12, 13} : IsDigit(e[i])
  /\ e[8] = "-" /\ e[11] = "-" /\ e[14] = "\n"
  /\ IsPrefixAt(e, Len(e) - 6, Chars("\n\n---\n\n"))

\* C10: from an absent or empty file, after n >= 1 non-overlapping successful
\* invocations the document is the default header followed by the n entries,
\* newest first, each intact with its date heading and closing rule.
C10_NewestFirst ==
  /\ Len(log) = Cardinality({p \in Procs : pc[p] = "done"})
  /\ log = <<>> => file \in EmptyFiles
  /\ log # <<>> =>
       /\ file = FileOf(Chars("# Changelog\n\nAll notable changes to this project.\n\n---\n\n")
                          \o Flatten(Reverse(log)))
       /\ \A i \in 1..Len(log) : WellDelimited(log[i])

C10_Witness ==
  /\ Len(log) = 3
  /\ log[1] # log[2]
  /\ file.exists

====
